---- MODULE Spec2Model ----
(***************************************************************************)
(* Model of the report-converter of CodeChecker:                           *)
(*   - TSANParser.parse_sanitizer_message (sanitizers/thread/output_parser) *)
(*   - output_to_plist (cli.py)                                            *)
(*   - ClangTidyPlistConverter._get_checker_category                       *)
(* The line cursor (get_next), the stack-trace block parser and the        *)
(* driving loop live outside the modelled sources and follow the prose     *)
(* specification of the repository.                                        *)
(***************************************************************************)
EXTENDS Integers, Sequences, FiniteSets, TLC

\* ------------------------------------------------------------------ bounds
MaxLines == 4
MaxName == 4

\* ------------------------------------------------------------- input lines
\* The analyzer output is a sequence of text lines.  The regular expressions
\* of the parsers are modelled by what they accept on this fixed vocabulary.
TsanHdr == "==1==WARNING: ThreadSanitizer: data race \n"
AsanHdr == "==2==ERROR: AddressSanitizer: heap-use-after-free\n"
FrameAX == "    #0 main a/x.c:3:5\n"
FrameBX == "    #1 f b/x.c:7:2\n"
FrameAY == "    #2 g a/y.c:1\n"
FrameNoLoc == "    #3 0x42a51d in h\n"
Blank == "\n"
\* End-of-input sentinel of the line cursor.
Sentinel == ""

Lines == {TsanHdr, AsanHdr, FrameAX, FrameBX, FrameAY, FrameNoLoc, Blank}

\* Paths are sequences of components; the empty sequence is the empty path.
NoPath == <<>>
PathAX == <<"a", "x.c">>
PathBX == <<"b", "x.c">>
PathAY == <<"a", "y.c">>

\* tsan_line_re.match(line): '==<digits>==(ERROR|WARNING): ThreadSanitizer: <message>'
tsan_line_re(line) == line = TsanHdr

\* match.group('message').strip()
match_message(line) == IF line = TsanHdr THEN "data race" ELSE ""

\* The per-family frame pattern: ordinal index, optional symbol, optional location.
IsFrame(line) == line \in {FrameAX, FrameBX, FrameAY, FrameNoLoc}

\* An Event: path, line, column, message.
Event(path, line, column, message) ==
    [path |-> path, line |-> line, column |-> column, message |-> message]

\* The Event of a frame line; a frame without location data gives an Event with
\* empty path and zero line/column, a location without column gives column 0.
FrameEvent(line) ==
    CASE line = FrameAX -> Event(PathAX, 3, 5, line)
      [] line = FrameBX -> Event(PathBX, 7, 2, line)
      [] line = FrameAY -> Event(PathAY, 1, 0, line)
      [] OTHER -> Event(NoPath, 0, 0, line)

\* A Message: primary location, description, checker name, events, notes.
Message(path, line, column, message, checker, events, notes) ==
    [path |-> path, line |-> line, column |-> column, message |-> message,
     checker |-> checker, events |-> events, notes |-> notes]

\* ''.join(lines)
RECURSIVE join(_)
join(lines) == IF lines = <<>> THEN "" ELSE Head(lines) \o join(Tail(lines))

\* ------------------------------------------------------------- line cursor
\* An iterator over output is the number of lines it has yielded so far.
\* get_next(it): the next line, or the sentinel at end of input.
get_next(output, it) ==
    IF it < Len(output) THEN [line |-> output[it + 1], it |-> it + 1]
    ELSE [line |-> Sentinel, it |-> it]

\* ------------------------------------------------- stack-trace block parser
\* Consumes contiguous frame lines starting at the current line; stops at the
\* first line that is not a frame, which is returned unconsumed.
RECURSIVE parse_stack_trace(_, _, _, _, _)
parse_stack_trace(output, it, line, stack_traces, events) ==
    IF IsFrame(line)
    THEN LET n == get_next(output, it)
         IN parse_stack_trace(output, n.it, n.line,
                              Append(stack_traces, line),
                              Append(events, FrameEvent(line)))
    ELSE [stack_traces |-> stack_traces, events |-> events,
          line |-> line, it |-> it]

\* ------------------------------------------------------------ TSAN parser
\* The result of a recognizer call: message is <<>> (None) or <<m>>, line is the
\* line handed back, it the iterator afterwards, raised whether it raised.
Result(message, line, it, raised) ==
    [message |-> message, line |-> line, it |-> it, raised |-> raised]


\* Mutant: the primary location is taken from the last Event.
parse_sanitizer_message_last_event(output, it, line) ==
    IF ~tsan_line_re(line) THEN Result(<<>>, line, it, FALSE)
    ELSE LET n == get_next(output, it)
             st == parse_stack_trace(output, n.it, n.line, <<>>, <<>>)
             e == st.events[Len(st.events)]
         IN IF st.events = <<>> THEN Result(<<>>, st.line, st.it, FALSE)
            ELSE Result(<<Message(e.path, e.line, e.column, match_message(line),
                                  "ThreadSanitizer", st.events,
                                  <<Event(e.path, e.line, e.column,
                                          join(st.stack_traces))>>)>>,
                        st.line, st.it, FALSE)

\* Mutant: the note drops the first consumed line of the block.
parse_sanitizer_message_note_tail(output, it, line) ==
    IF ~tsan_line_re(line) THEN Result(<<>>, line, it, FALSE)
    ELSE LET n == get_next(output, it)
             st == parse_stack_trace(output, n.it, n.line, <<>>, <<>>)
             e == st.events[1]
         IN IF st.events = <<>> THEN Result(<<>>, st.line, st.it, FALSE)
            ELSE Result(<<Message(e.path, e.line, e.column, match_message(line),
                                  "ThreadSanitizer", st.events,
                                  <<Event(e.path, e.line, e.column,
                                          join(Tail(st.stack_traces)))>>)>>,
                        st.line, st.it, FALSE)

\* Mutant: a line that is no header is consumed (the cursor advances).
parse_sanitizer_message_advance(output, it, line) ==
    IF ~tsan_line_re(line)
    THEN LET n == get_next(output, it) IN Result(<<>>, n.line, n.it, FALSE)
    ELSE LET n == get_next(output, it)
             st == parse_stack_trace(output, n.it, n.line, <<>>, <<>>)
             e == st.events[1]
         IN IF st.events = <<>> THEN Result(<<>>, st.line, st.it, FALSE)
            ELSE Result(<<Message(e.path, e.line, e.column, match_message(line),
                                  "ThreadSanitizer", st.events,
                                  <<Event(e.path, e.line, e.column,
                                          join(st.stack_traces))>>)>>,
                        st.line, st.it, FALSE)

\* Mutant: the header is left with next(it), which raises at end of input.
parse_sanitizer_message_next(output, it, line) ==
    IF ~tsan_line_re(line) THEN Result(<<>>, line, it, FALSE)
    ELSE IF it >= Len(output) THEN Result(<<>>, line, it, TRUE)
    ELSE LET n == get_next(output, it)
             st == parse_stack_trace(output, n.it, n.line, <<>>, <<>>)
             e == st.events[1]
         IN IF st.events = <<>> THEN Result(<<>>, st.line, st.it, FALSE)
            ELSE Result(<<Message(e.path, e.line, e.column, match_message(line),
                                  "ThreadSanitizer", st.events,
                                  <<Event(e.path, e.line, e.column,
                                          join(st.stack_traces))>>)>>,
                        st.line, st.it, FALSE)

\* TSANParser.parse_sanitizer_message(it, line)
parse_sanitizer_message(output, it, line) ==
    IF ~tsan_line_re(line) THEN Result(<<>>, line, it, FALSE)
    ELSE LET n == get_next(output, it)
             st == parse_stack_trace(output, n.it, n.line, <<>>, <<>>)
             e == st.events[1]
         IN IF st.events = <<>> THEN Result(<<>>, st.line, st.it, FALSE)
            ELSE Result(<<Message(e.path, e.line, e.column, match_message(line),
                                  "ThreadSanitizer", st.events,
                                  <<Event(e.path, e.line, e.column,
                                          join(st.stack_traces))>>)>>,
                        st.line, st.it, FALSE)

\* ------------------------------------------------------------ driving loop
\* One iteration of the driving loop at the current line: on success the
\* Message is collected and the loop continues from the returned line; on
\* failure the cursor advances one line; the loop ends at end of input.
parse_message_step(output, it, line) ==
    LET res == parse_sanitizer_message(output, it, line)
    IN IF res.raised
       THEN [res |-> res, msgs |-> <<>>, stop |-> TRUE, it |-> res.it,
             line |-> res.line]
       ELSE IF res.message # <<>>
       THEN [res |-> res, msgs |-> res.message, stop |-> FALSE, it |-> res.it,
             line |-> res.line]
       ELSE IF res.it < Len(output)
       THEN [res |-> res, msgs |-> <<>>, stop |-> FALSE, it |-> res.it + 1,
             line |-> output[res.it + 1]]
       ELSE [res |-> res, msgs |-> <<>>, stop |-> TRUE, it |-> res.it,
             line |-> res.line]

\* The Messages the driving loop collects from the given cursor state on.
RECURSIVE parse_messages_from(_, _, _)
parse_messages_from(output, it, line) ==
    LET s == parse_message_step(output, it, line)
    IN IF s.stop THEN s.msgs
       ELSE s.msgs \o parse_messages_from(output, s.it, s.line)

\* parse_messages(lines): the driving loop over the whole input.
parse_messages(output) ==
    IF output = <<>> THEN <<>> ELSE parse_messages_from(output, 1, output[1])


\* ------------------------------------------------------ checker category
\* Checker names are sequences of characters.
Chars == {"a", "b", "-"}
Names == UNION {[1..n -> Chars] : n \in 0..MaxName}
unknown == <<"u", "n", "k", "n", "o", "w", "n">>

\* The index of the first sep in s, or 0.
find(s, sep) ==
    IF \E i \in 1..Len(s) : s[i] = sep
    THEN CHOOSE i \in 1..Len(s) : s[i] = sep /\ \A j \in 1..(i - 1) : s[j] # sep
    ELSE 0

\* str.split(sep): the list of the parts between separators; never empty.
RECURSIVE split(_, _)
split(s, sep) ==
    LET i == find(s, sep)
    IN IF i = 0 THEN <<s>>
       ELSE <<SubSeq(s, 1, i - 1)>> \o split(SubSeq(s, i + 1, Len(s)), sep)

\* ClangTidyPlistConverter._get_checker_category(checker)
get_checker_category(checker) ==
    LET parts == split(checker, "-")
    IN IF parts # <<>> THEN parts[1] ELSE unknown

\* ------------------------------------------- architecture of a command
\* A compiler-invocation trace is a sequence of tokens, the line break being a
\* token of its own; a token is a sequence of text pieces, '-' a piece of its
\* own.  The tokens are those of the traces of test_triple_arch.
MaxTrace == 5
FlagTriple == <<"-", "triple">>
TripleX86 == <<"x86_64", "-", "unknown", "-", "linux", "-", "gnu">>
TargetLabel == <<"Target:">>
MainCpp == <<"main.cpp">>
NewLine == <<"\n">>
Tokens == {FlagTriple, TripleX86, TargetLabel, MainCpp, NewLine}
Traces == UNION {[1..n -> Tokens] : n \in 0..MaxTrace}

\* The explicit not-found result (None), and a found architecture.
NotFound == [found |-> FALSE, arch |-> <<>>]
Found(arch) == [found |-> TRUE, arch |-> arch]

\* The scan of the lines of a trace, in order: the first line with a -triple
\* flag followed by a token gives the text before the first '-' of that token.
RECURSIVE find_arch_in_lines(_)
find_arch_in_lines(lines) ==
    IF lines = <<>> THEN NotFound
    ELSE LET cmd == Head(lines)
             i == find(cmd, FlagTriple)
         IN IF i # 0 /\ i < Len(cmd)
            THEN Found(split(cmd[i + 1], "-")[1])
            ELSE find_arch_in_lines(Tail(lines))

\* Mutant: the first token of the trace that holds a '-' after some text is
\* taken for the triple, with or without a -triple flag before it.
find_arch_in_command_any_triple(output) ==
    IF \E i \in 1..Len(output) : find(output[i], "-") > 1
    THEN Found(split(output[CHOOSE i \in 1..Len(output) :
                                /\ find(output[i], "-") > 1
                                /\ \A j \in 1..(i - 1) : find(output[j], "-") <= 1],
                     "-")[1])
    ELSE NotFound

\* ctu_triple_arch._find_arch_in_command(output)
find_arch_in_command(output) == find_arch_in_lines(split(output, NewLine))

\* ------------------------------------------------------------------ state
VARIABLES
    output,       \* the input lines given to output_to_plist
    parser_type,  \* the family-type selector
    clean,        \* the clean flag
    output_dir,   \* the destination directory: [exists, files]
    dir0,         \* the destination directory when output_to_plist was called
    pc,           \* the position of output_to_plist
    it,           \* the line iterator of the driving loop
    line,         \* the current line of the driving loop
    messages,     \* the Messages parsed so far
    converters,   \* path -> the Messages added to the path's converter
    todo,         \* the converters still to be written
    written,      \* the names of the files written by this run
    last,         \* the last call of parse_sanitizer_message: <<>> or <<call>>
    outcome,      \* how output_to_plist ended
    checker,      \* the argument of _get_checker_category
    category,     \* its result: <<>> or <<category>>
    trace,        \* the argument of _find_arch_in_command
    arch_result,  \* its result: <<>> or <<result>>
    counter,      \* UserSimulator._counter
    started,      \* the number of threads main has started
    upc,          \* the position of each simulate_user thread
    tmp,          \* each thread's value of _counter read by "+= 1"
    uid,          \* each user's _id, 0 before it is set
    run_name,     \* each user's run name: <<>> or <<prefix, id>>
    stats         \* StatManager._stats: user id -> list of (user, task)

pvars == <<output, parser_type, clean, output_dir, dir0, pc, it, line, messages,
           converters, todo, written, last, outcome>>
cvars == <<checker, category>>
avars == <<trace, arch_result>>
uvars == <<counter, started, upc, tmp, uid, run_name, stats>>
vars == <<output, parser_type, clean, output_dir, dir0, pc, it, line, messages,
          converters, todo, written, last, outcome, checker, category, trace,
          arch_result, counter, started, upc, tmp, uid, run_name, stats>>

\* supported_converters: the TOOL_NAME of each converter class.
supported_converters == {"clang-tidy", "msan", "asan", "tsan", "ubsan"}
\* The selectors of the runs: the family whose parser is modelled, and one
\* outside the enumeration.
ParserTypes == {"tsan", "gcc"}

Inputs == UNION {[1..n -> Lines] : n \in 0..MaxLines}

NoDir == [exists |-> FALSE, files |-> <<>>]
Dirs == {NoDir,
         [exists |-> TRUE, files |-> ("old.plist" :> <<>>)],
         [exists |-> TRUE,
          files |-> ("old.plist" :> <<>>) @@ ("x.c_tsan.plist" :> <<>>)]}

PipelineInit ==
    /\ output \in Inputs
    /\ parser_type \in ParserTypes
    /\ clean \in BOOLEAN
    /\ output_dir \in Dirs
    /\ dir0 = output_dir
    /\ pc = "start"
    /\ it = 0
    /\ line = Sentinel
    /\ messages = <<>>
    /\ converters = <<>>
    /\ todo = {}
    /\ written = {}
    /\ last = <<>>
    /\ outcome = "running"

ArchIdle == trace = <<>> /\ arch_result = <<>>

\* The load test: the number of users (--users) and the state main starts in.
NumUsers == 3
Users == 1..NumUsers

UsersInit ==
    /\ counter = 0
    /\ started = 0
    /\ upc = [u \in Users |-> "new"]
    /\ tmp = [u \in Users |-> 0]
    /\ uid = [u \in Users |-> 0]
    /\ run_name = [u \in Users |-> <<>>]
    /\ stats = [i \in Users |-> <<>>]

Init ==
    PipelineInit /\ checker = <<>> /\ category = <<>> /\ ArchIdle /\ UsersInit

\* os.path.basename(path)
basename(path) == IF path = <<>> THEN "" ELSE path[Len(path)]

\* '{0}_{1}.plist'.format(file_name, parser_type)
out_file_name(c, type) == basename(c) \o "_" \o type \o ".plist"

\* Mutant: the converter is looked up lazily, after parsing has started.
Lookup_lazy ==
    /\ UNCHANGED <<cvars, avars, uvars>>
    /\ pc = "start"
    /\ pc' = "parse_start"
    /\ UNCHANGED <<output, parser_type, clean, output_dir, dir0, it, line,
                   messages, converters, todo, written, last, outcome>>

\* plist_converter = supported_converters[parser_type]()        (cli.py:49)
Lookup ==
    /\ UNCHANGED <<cvars, avars, uvars>>
    /\ pc = "start"
    /\ IF parser_type \in supported_converters
       THEN pc' = "parse_start" /\ outcome' = outcome
       ELSE pc' = "done" /\ outcome' = "KeyError"
    /\ UNCHANGED <<output, parser_type, clean, output_dir, dir0, it, line,
                   messages, converters, todo, written, last>>

\* parse_messages: it = iter(lines); the first line is fetched.
ParseStart ==
    /\ UNCHANGED <<cvars, avars, uvars>>
    /\ pc = "parse_start"
    /\ IF output = <<>>
       THEN pc' = "parsed" /\ it' = it /\ line' = line
       ELSE pc' = "parse" /\ it' = 1 /\ line' = output[1]
    /\ UNCHANGED <<output, parser_type, clean, output_dir, dir0, messages,
                   converters, todo, written, last, outcome>>

\* parse_messages: one iteration of the driving loop.
ParseStep ==
    /\ UNCHANGED <<cvars, avars, uvars>>
    /\ pc = "parse"
    /\ LET s == parse_message_step(output, it, line)
       IN /\ last' = <<[line |-> line, it |-> it, res |-> s.res]>>
          /\ messages' = messages \o s.msgs
          /\ it' = s.it
          /\ line' = s.line
          /\ pc' = IF s.stop THEN "parsed" ELSE "parse"
    /\ UNCHANGED <<output, parser_type, clean, output_dir, dir0, converters,
                   todo, written, outcome>>

\* The converters of cli.py:57-61: per primary path, the Messages added to
\* the path's converter, in the order of messages.
RECURSIVE select(_, _)
select(ms, path) ==
    IF ms = <<>> THEN <<>>
    ELSE IF Head(ms).path = path THEN <<Head(ms)>> \o select(Tail(ms), path)
    ELSE select(Tail(ms), path)

group(ms) ==
    [c \in {ms[i].path : i \in 1..Len(ms)} |-> select(ms, c)]

\* Mutant: an empty result is not told apart, the run goes on and returns.
CheckEmpty_fallthrough ==
    /\ UNCHANGED <<cvars, avars, uvars>>
    /\ pc = "parsed"
    /\ pc' = "clean"
    /\ converters' = group(messages)
    /\ UNCHANGED <<output, parser_type, clean, output_dir, dir0, it, line,
                   messages, todo, written, last, outcome>>

\* if not messages: sys.exit(0); else the converters are built  (cli.py:52-61)
CheckEmpty ==
    /\ UNCHANGED <<cvars, avars, uvars>>
    /\ pc = "parsed"
    /\ IF messages = <<>>
       THEN pc' = "done" /\ outcome' = "exit0" /\ converters' = converters
       ELSE pc' = "clean" /\ outcome' = outcome /\ converters' = group(messages)
    /\ UNCHANGED <<output, parser_type, clean, output_dir, dir0, it, line,
                   messages, todo, written, last>>

\* if clean and os.path.isdir(output_dir): shutil.rmtree(output_dir) (cli.py:63-66)
Clean ==
    /\ UNCHANGED <<cvars, avars, uvars>>
    /\ pc = "clean"
    /\ output_dir' = IF clean /\ output_dir.exists THEN NoDir ELSE output_dir
    /\ pc' = "mkdir"
    /\ UNCHANGED <<output, parser_type, clean, dir0, it, line, messages,
                   converters, todo, written, last, outcome>>

\* if not os.path.exists(output_dir): os.makedirs(output_dir)  (cli.py:68-69)
MakeDirs ==
    /\ UNCHANGED <<cvars, avars, uvars>>
    /\ pc = "mkdir"
    /\ output_dir' = IF output_dir.exists THEN output_dir
                     ELSE [exists |-> TRUE, files |-> <<>>]
    /\ todo' = DOMAIN converters
    /\ pc' = "write"
    /\ UNCHANGED <<output, parser_type, clean, dir0, it, line, messages,
                   converters, written, last, outcome>>

\* One iteration of "for c in converters": write_to_file(out_file) (cli.py:71-79)
WriteFile ==
    /\ UNCHANGED <<cvars, avars, uvars>>
    /\ pc = "write"
    /\ \E c \in todo :
         LET name == out_file_name(c, parser_type)
         IN /\ output_dir' = [output_dir EXCEPT
                                !.files = (name :> converters[c]) @@ @]
            /\ written' = written \cup {name}
            /\ todo' = todo \ {c}
    /\ UNCHANGED <<output, parser_type, clean, dir0, pc, it, line, messages,
                   converters, last, outcome>>

\* output_to_plist returns after the last converter is written.
Return ==
    /\ UNCHANGED <<cvars, avars, uvars>>
    /\ pc = "write"
    /\ todo = {}
    /\ pc' = "done"
    /\ outcome' = "returned"
    /\ UNCHANGED <<output, parser_type, clean, output_dir, dir0, it, line,
                   messages, converters, todo, written, last>>

Next ==
    \/ Lookup
    \/ ParseStart
    \/ ParseStep
    \/ CheckEmpty
    \/ Clean
    \/ MakeDirs
    \/ WriteFile
    \/ Return

Spec == Init /\ [][Next]_vars

\* ---------------------------------------------- checker category, applied
\* The converter pipeline at rest, for the specifications of the functions
\* that take no part in it.
PipelineIdle(at) ==
    /\ output = <<>> /\ parser_type = "clang-tidy" /\ clean = FALSE
    /\ output_dir = NoDir /\ dir0 = NoDir /\ pc = at /\ it = 0
    /\ line = Sentinel /\ messages = <<>> /\ converters = <<>> /\ todo = {}
    /\ written = {} /\ last = <<>> /\ outcome = "running"

CategoryInit ==
    /\ PipelineIdle("category")
    /\ ArchIdle
    /\ UsersInit
    /\ checker \in Names
    /\ category = <<>>

GetCheckerCategory ==
    /\ category = <<>>
    /\ category' = <<get_checker_category(checker)>>
    /\ UNCHANGED <<checker>>
    /\ UNCHANGED <<pvars, avars, uvars>>

CategoryNext == GetCheckerCategory

SpecCategory == CategoryInit /\ [][CategoryNext]_vars

\* ------------------------------------------ architecture search, applied
ArchInit ==
    /\ PipelineIdle("arch")
    /\ checker = <<>> /\ category = <<>>
    /\ UsersInit
    /\ trace \in Traces
    /\ arch_result = <<>>

FindArchInCommand ==
    /\ arch_result = <<>>
    /\ arch_result' = <<find_arch_in_command(trace)>>
    /\ UNCHANGED <<trace>>
    /\ UNCHANGED <<pvars, cvars, uvars>>

ArchNext == FindArchInCommand

SpecArch == ArchInit /\ [][ArchNext]_vars

\* ------------------------------------------------------- load-test users
LoadTestInit ==
    /\ PipelineIdle("load_test")
    /\ checker = <<>> /\ category = <<>>
    /\ ArchIdle
    /\ UsersInit

\* main: "for t in threads: t.start()", one thread at a time, in order.
StartThread ==
    /\ started < NumUsers
    /\ started' = started + 1
    /\ upc' = [upc EXCEPT ![started + 1] = "load"]
    /\ UNCHANGED <<counter, tmp, uid, run_name, stats>>
    /\ UNCHANGED <<pvars, cvars, avars>>

\* UserSimulator.__init__: "UserSimulator._counter += 1", the read.
LoadCounter(u) ==
    /\ upc[u] = "load"
    /\ tmp' = [tmp EXCEPT ![u] = counter]
    /\ upc' = [upc EXCEPT ![u] = "store"]
    /\ UNCHANGED <<counter, started, uid, run_name, stats>>
    /\ UNCHANGED <<pvars, cvars, avars>>

\* UserSimulator.__init__: "UserSimulator._counter += 1", the write.
StoreCounter(u) ==
    /\ upc[u] = "store"
    /\ counter' = tmp[u] + 1
    /\ upc' = [upc EXCEPT ![u] = "read"]
    /\ UNCHANGED <<started, tmp, uid, run_name, stats>>
    /\ UNCHANGED <<pvars, cvars, avars>>

\* UserSimulator.__init__: "self._id = UserSimulator._counter".
ReadId(u) ==
    /\ upc[u] = "read"
    /\ uid' = [uid EXCEPT ![u] = counter]
    /\ upc' = [upc EXCEPT ![u] = "name"]
    /\ UNCHANGED <<counter, started, tmp, run_name, stats>>
    /\ UNCHANGED <<pvars, cvars, avars>>

\* simulate_user: run_name = 'performance_test_' + str(user.get_id()).
RunName(u) ==
    /\ upc[u] = "name"
    /\ run_name' = [run_name EXCEPT ![u] = <<"performance_test_", uid[u]>>]
    /\ upc' = [upc EXCEPT ![u] = "play"]
    /\ UNCHANGED <<counter, started, tmp, uid, stats>>
    /\ UNCHANGED <<pvars, cvars, avars>>

\* UserSimulator.play: self._stat.add_duration(self._id, name, duration).
Play(u) ==
    /\ upc[u] = "play"
    /\ stats' = [stats EXCEPT ![uid[u]] = Append(@, <<u, "Storage">>)]
    /\ upc' = [upc EXCEPT ![u] = "done"]
    /\ UNCHANGED <<counter, started, tmp, uid, run_name>>
    /\ UNCHANGED <<pvars, cvars, avars>>

LoadTestNext ==
    \/ StartThread
    \/ \E u \in Users : LoadCounter(u)
    \/ \E u \in Users : StoreCounter(u)
    \/ \E u \in Users : ReadId(u)
    \/ \E u \in Users : RunName(u)
    \/ \E u \in Users : Play(u)

SpecLoadTest == LoadTestInit /\ [][LoadTestNext]_vars


\* ------------------------------------------------------------- properties
\* The number of contiguous frame lines that follow line i of the input.
FrameRun(out, i) ==
    CHOOSE n \in 0..(Len(out) - i) :
        /\ \A k \in 1..n : IsFrame(out[i + k])
        /\ (i + n + 1 <= Len(out) => ~IsFrame(out[i + n + 1]))

SameLocation(a, b) ==
    a.path = b.path /\ a.line = b.line /\ a.column = b.column

HasFirstEventLocation(m) ==
    Len(m.events) >= 1 /\ SameLocation(m, m.events[1])

\* The last recognizer call was made on a header line.
LastOnHeader == last # <<>> /\ tsan_line_re(last[1].line)

\* C1: every Message returned by parse_sanitizer_message has at least one
\* Event and its primary path/line/column are those of its first Event; a
\* matched header followed by a block without frames returns no Message.
C1_MessageMirrorsFirstEvent ==
    /\ \A i \in 1..Len(messages) : HasFirstEventLocation(messages[i])
    /\ last # <<>> =>
         /\ \A i \in 1..Len(last[1].res.message) :
                HasFirstEventLocation(last[1].res.message[i])
         /\ (LastOnHeader /\ FrameRun(output, last[1].it) = 0)
                => last[1].res.message = <<>>

C1_Witness ==
    /\ last # <<>>
    /\ last[1].res.message # <<>>
    /\ Len(last[1].res.message[1].events) >= 2
    /\ ~SameLocation(last[1].res.message[1].events[1],
                     last[1].res.message[1].events[2])

\* C2: for a header followed by at least one frame line the returned Message
\* has exactly one note, placed at the primary location, whose text is the
\* in-order concatenation of the consumed frame lines, and the primary
\* location is the first frame's location.
C2_SingleVerbatimNote ==
    (LastOnHeader /\ FrameRun(output, last[1].it) >= 1) =>
        LET c == last[1]
            n == FrameRun(output, c.it)
        IN /\ c.res.message # <<>>
           /\ Len(c.res.message[1].notes) = 1
           /\ SameLocation(c.res.message[1].notes[1], c.res.message[1])
           /\ c.res.message[1].notes[1].message
                  = join(SubSeq(output, c.it + 1, c.it + n))
           /\ SameLocation(c.res.message[1], FrameEvent(output[c.it + 1]))

C2_Witness ==
    /\ LastOnHeader
    /\ FrameRun(output, last[1].it) >= 2
    /\ last[1].res.message # <<>>
    /\ last[1].res.message[1].notes[1].message
           = join(SubSeq(output, last[1].it + 1, Len(output)))

\* C3: a run over Messages with K distinct primary paths writes exactly K
\* files, one per path, each holding the Messages of its path in parse order.
C3_OneFilePerPath ==
    (pc = "done" /\ outcome = "returned") =>
        LET paths == {messages[i].path : i \in 1..Len(messages)}
        IN /\ Cardinality(written) = Cardinality(paths)
           /\ \A c \in paths :
                  output_dir.files[out_file_name(c, parser_type)]
                      = select(messages, c)

\* C4: on a line that is no ThreadSanitizer header parse_sanitizer_message
\* returns no Message together with that same line, and reads no further line.
C4_NoMatchLeavesCursor ==
    (last # <<>> /\ ~tsan_line_re(last[1].line)) =>
        last[1].res = Result(<<>>, last[1].line, last[1].it, FALSE)

C4_Witness ==
    /\ last # <<>>
    /\ ~tsan_line_re(last[1].line)
    /\ last[1].it < Len(output)
    /\ last[1].res.message = <<>>

\* C5: after a header without frames no Message is produced, the line handed
\* back is the first line not consumed as a frame, and the driving loop,
\* continuing, collects the Messages of a fresh parse of the lines from there.
C5_FramelessHeaderResumes ==
    (pc \in {"parse", "parsed"} /\ LastOnHeader
        /\ FrameRun(output, last[1].it) = 0) =>
        LET c == last[1]
        IN /\ c.res.message = <<>>
           /\ c.res.line = get_next(output, c.it).line
           /\ (IF pc = "parse" THEN parse_messages_from(output, it, line)
               ELSE <<>>)
                  = parse_messages(SubSeq(output, c.it + 1, Len(output)))

\* C6: an input without any header line of the family gives zero Messages and
\* the empty-result outcome exit(0): no error, and not the outcome of a run
\* that wrote output.
C6_EmptyResult ==
    (parser_type \in supported_converters
        /\ \A i \in 1..Len(output) : ~tsan_line_re(output[i])) =>
        /\ messages = <<>>
        /\ outcome \in {"running", "exit0"}
        /\ (pc = "done" => outcome = "exit0")

C6_Witness ==
    /\ pc = "done"
    /\ outcome = "exit0"
    /\ Len(output) >= 2
    /\ \A i \in 1..Len(output) : ~tsan_line_re(output[i])

\* C7: the parse terminates at end of input: every iteration of the driving
\* loop advances the cursor or stops the loop, no call raises, and a header on
\* the last line gets the sentinel, returns no Message and stops the loop.
C7_TerminatesAtEndOfInput ==
    [][pc = "parse" =>
          /\ pc' \in {"parse", "parsed"}
          /\ it' <= Len(output)
          /\ (pc' = "parse" => it' > it)
          /\ ~last'[1].res.raised
          /\ (tsan_line_re(line) /\ it = Len(output)) =>
                 /\ last'[1].res = Result(<<>>, Sentinel, it, FALSE)
                 /\ pc' = "parsed"]_vars

C7_Witness ==
    /\ pc = "parsed"
    /\ LastOnHeader
    /\ last[1].it = Len(output)
    /\ last[1].res.line = Sentinel

\* C8: the category of a checker name is the text before its first '-', and
\* "unknown" when the name holds no '-' (the empty name included).
C8_CategoryOrUnknown ==
    category # <<>> =>
        category[1] = IF find(checker, "-") # 0
                      THEN SubSeq(checker, 1, find(checker, "-") - 1)
                      ELSE unknown

\* C9: with the clean flag set and a destination directory that exists and
\* holds unrelated files, the old contents are gone before any file is
\* written, and the finished run leaves only files it produced.
C9_CleanLeavesOnlyNewFiles ==
    (clean /\ dir0.exists /\ parser_type \in supported_converters) =>
        /\ (written # {} => DOMAIN output_dir.files \subseteq written)
        /\ (pc = "done" => DOMAIN output_dir.files \subseteq written)

\* C10: a selector outside the supported enumeration is rejected at once with
\* a failure: no line is parsed and the destination directory is untouched.
C10_UnknownSelectorRejected ==
    parser_type \notin supported_converters =>
        /\ pc \in {"start", "done"}
        /\ (pc = "done" => outcome = "KeyError")
        /\ last = <<>> /\ it = 0 /\ messages = <<>>
        /\ output_dir = dir0 /\ written = {}

C10_Witness ==
    /\ parser_type \notin supported_converters
    /\ pc = "done"
    /\ outcome = "KeyError"
    /\ output # <<>>
    /\ clean
    /\ dir0.exists


\* The text of a token before its first '-', the whole token when it has none.
TextBeforeDash(token) ==
    IF \E k \in 1..Len(token) : token[k] = "-"
    THEN SubSeq(token, 1,
                (CHOOSE k \in 1..Len(token) :
                    token[k] = "-" /\ \A j \in 1..(k - 1) : token[j] # "-") - 1)
    ELSE token

\* Position i of the trace holds a -triple flag.
IsTripleFlagAt(i) == i \in 1..Len(trace) /\ trace[i] = FlagTriple

\* The -triple flag at i is followed by a token on its line.
TripleFollows(i) ==
    IsTripleFlagAt(i) /\ i < Len(trace) /\ trace[i + 1] # NewLine

\* C11: _find_arch_in_command returns the text before the first '-' of the
\* token that follows a "-triple" flag on a line of the trace when there is
\* one, and None when no line carries a "-triple" flag, wherever else the
\* triple text may stand in the trace.
C11_ArchOfTripleFlag ==
    arch_result # <<>> =>
        /\ (\E i \in 1..Len(trace) : TripleFollows(i)) =>
               \E i \in 1..Len(trace) :
                   /\ TripleFollows(i)
                   /\ arch_result[1] = Found(TextBeforeDash(trace[i + 1]))
        /\ (\A i \in 1..Len(trace) : ~IsTripleFlagAt(i)) =>
               arch_result[1] = NotFound

C11_Witness ==
    /\ arch_result = <<Found(<<"x86_64">>)>>
    /\ \E i \in 1..Len(trace) : trace[i] = NewLine
    /\ trace[1] = TargetLabel
    /\ trace[2] = TripleX86


\* C12: under every interleaving of the constructor steps of the concurrently
\* started simulate_user threads every user gets an id of its own, hence a
\* statistics row of its own and a run name of its own.
C12_DistinctUserIds ==
    \A u, v \in Users :
        u # v =>
            /\ (uid[u] # 0 /\ uid[v] # 0) => uid[u] # uid[v]
            /\ (run_name[u] # <<>> /\ run_name[v] # <<>>)
                   => run_name[u] # run_name[v]
            /\ \A i \in Users : \A k \in 1..Len(stats[i]) :
                   stats[i][k][1] = u => \A j \in 1..Len(stats[i]) :
                                             stats[i][j][1] # v

====
